---- MODULE Spec2Model ----
(***************************************************************************)
(* Three offline converters (COCO, Open Images, PASCAL VOC) that load a    *)
(* dataset into one SQLite schema: Image, LabelClass, Annotator,           *)
(* DatasetVersion, Annotation, splits.                                     *)
(*                                                                         *)
(* The working tables are the rows the open connection sees (inside its    *)
(* transaction); `committed` is the content of the database file.  A run   *)
(* that dies with an uncaught exception never commits, so its connection   *)
(* is rolled back and the tables fall back to `committed`.                 *)
(*                                                                         *)
(* Columns that no statement of the converters ever reads back and that    *)
(* carry no constraint (Annotator.name, DatasetVersion.name/release_date,  *)
(* Annotation.mask_path) are left out of the rows.                         *)
(***************************************************************************)
EXTENDS Integers, Sequences, FiniteSets, TLC

\* ------------------------------------------------------------------ bounds
MaxAnns   == 2   \* annotation records of one COCO run
MaxAnnsValOnly == 3  \* the same when the root holds instances_val2017.json only
MaxTarget == 2   \* largest TARGET_IMAGE_COUNT tried by an Open Images run
MaxBoxes  == 2   \* box rows of selected images read by one Open Images run
MaxXml    == 2   \* XML files under Annotations/ in one VOC run
MaxObjs   == 2   \* <object> elements of one VOC run (all files together)

\* ----------------------------------------------------------- input domains
NULL == -999                     \* SQL NULL / Python None in a numeric column
NOTEXT == <<>>                   \* SQL NULL in the bbox TEXT column
Scale == 2                       \* COCO coordinates are given in 1/Scale units
ImageIds  == {1, 2}
CatIds    == {1, 2}
Cat(id, name) == [id |-> id, name |-> name]
\* the "categories" list of an annotation file
CatLists  == { <<>>, <<Cat(1, "cat")>>, <<Cat(1, "cat"), Cat(2, "dog")>>,
               <<Cat(1, "cat"), Cat(2, "cat")>>, <<Cat(1, "cat"), Cat(1, "dog")>> }
Im(id, file_name) ==
  [id |-> id, file_name |-> file_name, width |-> 640, height |-> 480]
\* the "images" list of an annotation file
ImageLists == { <<>>, <<Im(1, "a.jpg")>>, <<Im(1, "a.jpg"), Im(2, "b.jpg")>>,
                <<Im(1, "a.jpg"), Im(2, "a.jpg")>>,
                <<Im(1, "a.jpg"), Im(1, "b.jpg")>> }
\* a *.jpg file of a split directory: stem_id is int(stem), or NULL when the
\* stem is not a number; width and height are NULL when the probe fails
Jpeg(name, stem_id, width, height) ==
  [name |-> name, stem_id |-> stem_id, width |-> width, height |-> height]
\* sorted(split_dir.glob("*.jpg"))
DirLists  == { <<>>,
               <<Jpeg("01.jpg", 1, 640, 480), Jpeg("1.jpg", 1, 640, 480)>>,
               <<Jpeg("1.jpg", 1, NULL, NULL), Jpeg("2.jpg", 2, 640, 480),
                 Jpeg("x.jpg", NULL, 640, 480)>> }
Boxes     == {<<2, 4, 6, 8>>, <<1, -3, 1, 1>>}   \* [x,y,w,h] * Scale

OISplits  == <<"train", "validation", "test">>   \* keys of IMAGE_INFO_FILES
OIDs      == {"i1", "i2"}                        \* ImageID column
Thumbs    == {"", "u1"}                          \* Thumbnail300KURL column
Originals == {"", "u1", "u2"}                    \* OriginalURL column
MIDs      == {"/m/1", "/m/2"}                    \* LabelName column
\* oidv7-class-descriptions-boxable.csv as read by read_class_names
MidMaps   == { <<>>, ("/m/1" :> "Cat"), ("/m/1" :> "Cat" @@ "/m/2" :> "Cat"),
               ("/m/1" :> "Cat" @@ "/m/2" :> "Dog") }
OIBox     == <<1, 3, 2, 4>>   \* XMin, XMax, YMin, YMax of a box row, in tenths

XmlStems  == <<"s1", "s2", "s3">>    \* sorted(ann_dir.glob("*.xml")), stems
VocSize   == <<500, 375>>                        \* <size>: width, height
NoSize    == <<NULL, NULL>>                      \* an XML file without <size>
NoBox     == <<>>                                \* <object> without <bndbox>

\* ------------------------------------------------------------------ schema
SplitEnum == {"train", "val", "trainval", "test"}

\* Image.file_path carries UNIQUE in the COCO and VOC schemas only.
ImagePathUnique(c) == c \in {"coco", "voc"}

\* LabelClass.name carries UNIQUE in the COCO and VOC schemas only.
LabelNameUnique(c) == c \in {"coco", "voc"}

\* splits.split carries CHECK(split IN (...)) in the COCO and VOC schemas only.
SplitCheck(c, s) == c \in {"coco", "voc"} => s \in SplitEnum

EmptyDb ==
  [Image |-> {}, LabelClass |-> {}, Annotator |-> {}, DatasetVersion |-> {},
   Annotation |-> {}, splits |-> {}]

\* ------------------------------------------------------------- SQL helpers
\* A row conflicts with the table on its primary key or on a UNIQUE column.
ImageConflict(c, tbl, row) ==
  \E r \in tbl : r.image_id = row.image_id
                 \/ (ImagePathUnique(c) /\ r.file_path = row.file_path)

LabelConflict(c, tbl, row) ==
  \E r \in tbl : r.label_class_id = row.label_class_id
                 \/ (LabelNameUnique(c) /\ r.name = row.name)

\* PRAGMA foreign_keys = ON: the parent row of a child key must exist.
FkImage(img, id) == \E r \in img : r.image_id = id

FkLabel(lab, id) == \E r \in lab : r.label_class_id = id

\* the same check with foreign-key enforcement left off
FkAnnotationBroken_Off(img, lab, ator, ver, a) == FALSE

FkAnnotationBroken(img, lab, ator, ver, a) ==
  ~ ( /\ FkImage(img, a.image_id)
      /\ FkLabel(lab, a.label_class_id)
      /\ a.annotator_id \in ator
      /\ a.version_id \in ver )

\* COALESCE(MAX(col), 0) over a set of integers
MaxOf(S) == IF S = {} THEN 0 ELSE CHOOSE m \in S : \A x \in S : x <= m

\* Python int(): truncation toward zero of n / Scale
Trunc(n) == IF n >= 0 THEN n \div Scale ELSE -((-n) \div Scale)

\* ------------------------------------------------------------------- state
VARIABLES
  conv,            \* which converter this run is: "coco", "oi" or "voc"
  pc,              \* position of the run
  err,             \* the uncaught exception that ended the run and the
                   \* statement that raised it, or NoErr
  missing,         \* the inputs the converter looks for were absent
  dbTouched,       \* the output database file was deleted / opened / rebuilt
  Image, LabelClass, Annotator, DatasetVersion, Annotation, splits,
  committed,       \* content of the database file
  ann_paths,       \* COCO: which annotation JSON files were found
  split_dirs,      \* COCO: which split directories were found
  next_id,         \* COCO: insert_annotations' next annotation id
  srcImages,       \* COCO: the image records of the lists and directories read
  srcCats,         \* COCO: the categories list read
  srcAnns,         \* COCO: the annotation records read so far, in order, each
                   \* with the split of the file it came from
  TARGET_IMAGE_COUNT,  \* Open Images: the configured cap
  mid_to_name,     \* Open Images: MID -> display name
  rdSplit,         \* Open Images: index of the image-info file being read
  picked,          \* Open Images: choose_images' ordered dict, as a sequence
  imageid_to_int,  \* Open Images: ImageID -> assigned image_id
  label_to_int,    \* Open Images: MID -> assigned label_class_id
  next_label_int,  \* Open Images
  ann_pk,          \* Open Images
  no_url_rows,     \* Open Images: choose_images read a row without any URL
  srcXml           \* VOC: the XML files processed so far, as parsed

dbVars   == <<Image, LabelClass, Annotator, DatasetVersion, Annotation, splits>>
cocoVars == <<ann_paths, split_dirs, next_id>>
histVars == <<missing, srcImages, srcCats, srcAnns>>
oiVars   == <<TARGET_IMAGE_COUNT, mid_to_name, rdSplit, picked, imageid_to_int,
              label_to_int, next_label_int, ann_pk, no_url_rows>>
vars == <<conv, pc, err, dbTouched, dbVars, committed, cocoVars, histVars, oiVars,
          srcXml>>

Tables ==
  [Image |-> Image, LabelClass |-> LabelClass, Annotator |-> Annotator,
   DatasetVersion |-> DatasetVersion, Annotation |-> Annotation,
   splits |-> splits]

\* The connection's view becomes d.
SetTables(d) ==
  /\ Image' = d.Image
  /\ LabelClass' = d.LabelClass
  /\ Annotator' = d.Annotator
  /\ DatasetVersion' = d.DatasetVersion
  /\ Annotation' = d.Annotation
  /\ splits' = d.splits

NoErr == [type |-> "none", at |-> "none"]

\* an exception that leaves the pending rows in the database file
Raise_Commits(e, at) ==
  /\ pc' = "aborted"
  /\ err' = [type |-> e, at |-> at]
  /\ committed' = Tables
  /\ UNCHANGED dbVars

\* An uncaught exception ends the run: nothing is committed, the pending
\* transaction is rolled back.
Raise(e, at) ==
  /\ pc' = "aborted"
  /\ err' = [type |-> e, at |-> at]
  /\ SetTables(committed)
  /\ UNCHANGED committed

NoFlags == [train |-> FALSE, val |-> FALSE, test |-> FALSE]

Fl(a, b, c) == [train |-> a, val |-> b, test |-> c]

\* What find_annotations and find_split_dirs find under the root: the
\* annotation JSON files (json) and the split directories (dirs).
Roots ==
  { [json |-> NoFlags,                  dirs |-> NoFlags],
    [json |-> Fl(FALSE, TRUE, FALSE),   dirs |-> NoFlags],
    [json |-> Fl(TRUE, TRUE, FALSE),    dirs |-> Fl(TRUE, TRUE, FALSE)],
    [json |-> Fl(FALSE, FALSE, TRUE),   dirs |-> Fl(FALSE, TRUE, FALSE)],
    [json |-> NoFlags,                  dirs |-> Fl(TRUE, FALSE, TRUE)] }

ValOnly(json, dirs) == json = Fl(FALSE, TRUE, FALSE) /\ dirs = NoFlags

AnnBound == IF ValOnly(ann_paths, split_dirs) THEN MaxAnnsValOnly ELSE MaxAnns

Init ==
  /\ conv \in {"coco", "oi", "voc"}
  /\ pc = "start"
  /\ err = NoErr
  /\ missing = FALSE
  /\ dbTouched = FALSE
  /\ Image = {} /\ LabelClass = {} /\ Annotator = {}
  /\ DatasetVersion = {} /\ Annotation = {} /\ splits = {}
  /\ committed = EmptyDb
  /\ ann_paths = NoFlags
  /\ split_dirs = NoFlags
  /\ next_id = 0
  /\ srcImages = {}
  /\ srcCats = <<>>
  /\ srcAnns = <<>>
  /\ TARGET_IMAGE_COUNT = 0
  /\ mid_to_name = <<>>
  /\ rdSplit = 1
  /\ picked = <<>>
  /\ imageid_to_int = <<>>
  /\ label_to_int = <<>>
  /\ next_label_int = 0
  /\ ann_pk = 0
  /\ no_url_rows = FALSE
  /\ srcXml = <<>>

\* =================================================================== COCO
\* rel_path = f"{split}2017/{file_name}"
CocoRelPath(split, file_name) == split \o "2017/" \o file_name

\* int(v) if v else None
IntOrNone(v) == IF v = NULL \/ v = 0 THEN NULL ELSE v

\* INSERT OR IGNORE INTO Image(image_id,file_path,width,height)
insert_image_row(img, image_id, rel_path, width, height) ==
  LET row == [image_id |-> image_id, file_path |-> rel_path,
              width |-> IntOrNone(width), height |-> IntOrNone(height)]
  IN IF ImageConflict("coco", img, row) THEN img ELSE img \cup {row}

\* INSERT OR IGNORE INTO splits(image_id, split): a row that repeats the
\* primary key or fails the CHECK is skipped; a row that is inserted needs
\* its parent Image row.
SplitIgnored(c, spl, row) == row \in spl \/ ~ SplitCheck(c, row.split)

SplitFkBroken(c, img, spl, row) ==
  ~ SplitIgnored(c, spl, row) /\ ~ FkImage(img, row.image_id)

\* an insert_split that writes nothing
insert_split_Noop(c, spl, row) == spl

insert_split(c, spl, row) ==
  IF SplitIgnored(c, spl, row) THEN spl ELSE spl \cup {row}

\* INSERT OR IGNORE INTO LabelClass(label_class_id,name)
insert_category(lab, cat) ==
  LET row == [label_class_id |-> cat.id, name |-> cat.name]
  IN IF LabelConflict("coco", lab, row) THEN lab ELSE lab \cup {row}

\* "for cat in categories" from the k-th record on
RECURSIVE insert_categories(_, _, _)
insert_categories(lab, categories, k) ==
  IF k > Len(categories) THEN lab
  ELSE insert_categories(insert_category(lab, categories[k]), categories, k + 1)

\* the four integer box columns of insert_annotations
CocoXmin(b) == Trunc(b[1])

CocoYmin(b) == Trunc(b[2])

\* the right edge as the sum of the truncated x and the truncated w
CocoXmax_SumOfTruncs(b) == Trunc(b[1]) + Trunc(b[3])

CocoXmax(b) == Trunc(b[1] + b[3])

CocoYmax(b) == Trunc(b[2] + b[4])

CocoAnnRow(id, image_id, category_id, b) ==
  [annotation_id |-> id, image_id |-> image_id, version_id |-> 1,
   annotator_id |-> 1, label_class_id |-> category_id,
   xmin |-> CocoXmin(b), ymin |-> CocoYmin(b),
   xmax |-> CocoXmax(b), ymax |-> CocoYmax(b), bbox |-> b]

\* ids that start from 1 at every call
NextAnnotationId_One(ann) == 1

\* SELECT COALESCE(MAX(annotation_id),0) FROM Annotation, plus one
NextAnnotationId(ann) == MaxOf({r.annotation_id : r \in ann}) + 1

ImgPc(s) == CASE s = "train" -> "images_train"
              [] s = "val"   -> "images_val"
              [] s = "test"  -> "images_test"

AnnPc(s) == CASE s = "train" -> "ann_train"
              [] s = "val"   -> "ann_val"

\* the statement of build() that follows the images of a split
AfterImages(s) == CASE s = "train" -> "images_val"
                    [] s = "val"   -> "images_test"
                    [] s = "test"  -> "ann_train"

\* build(), up to the categories: discovery, connect, executescript (drops
\* and recreates the tables, autocommitted), ensure_static_rows.
CocoBuild ==
  /\ conv = "coco" /\ pc = "start"
  /\ \E root \in Roots :
       /\ ann_paths' = root.json
       /\ split_dirs' = root.dirs
       /\ missing' = (root.json = NoFlags /\ root.dirs = NoFlags)
  /\ dbTouched' = TRUE
  /\ committed' = EmptyDb
  /\ SetTables([EmptyDb EXCEPT !.Annotator = {1}, !.DatasetVersion = {1}])
  /\ pc' = "categories"
  /\ UNCHANGED <<conv, err, next_id, srcImages, srcCats, srcAnns, oiVars, srcXml>>

\* cats = (train_data or val_data or {}).get("categories", []);
\* insert_categories(cur, cats)
CocoCategories ==
  /\ conv = "coco" /\ pc = "categories"
  /\ \E cats \in (IF ann_paths.train \/ ann_paths.val THEN CatLists ELSE {<<>>}) :
       /\ LabelClass' = insert_categories(LabelClass, cats, 1)
       /\ srcCats' = cats
  /\ pc' = "images_train"
  /\ UNCHANGED <<conv, err, dbTouched, Image, Annotator, DatasetVersion,
                 Annotation, splits, committed, cocoVars, missing, srcImages,
                 srcAnns, oiVars, srcXml>>

\* insert_image_row followed by insert_split, as both image loops run them;
\* ok turns FALSE when insert_split violates the foreign key
CocoAddImage(st, split, image_id, rel_path, width, height) ==
  LET img1 == insert_image_row(st.Image, image_id, rel_path, width, height)
      srow == [image_id |-> image_id, split |-> split]
  IN IF SplitFkBroken("coco", img1, st.splits, srow)
     THEN [ok |-> FALSE, Image |-> st.Image, splits |-> st.splits]
     ELSE [ok |-> TRUE, Image |-> img1,
           splits |-> insert_split("coco", st.splits, srow)]

\* "for im in images" from the k-th record on
RECURSIVE insert_images_from_ann(_, _, _, _)
insert_images_from_ann(st, images, split, k) ==
  IF k > Len(images) \/ ~ st.ok THEN st
  ELSE insert_images_from_ann(
         CocoAddImage(st, split, images[k].id,
                      CocoRelPath(split, images[k].file_name),
                      images[k].width, images[k].height),
         images, split, k + 1)

\* "for jpg in sorted(split_dir.glob("*.jpg"))" from the k-th file on; a
\* file whose stem is not a number is skipped
RECURSIVE insert_images_by_scanning(_, _, _, _)
insert_images_by_scanning(st, files, split, k) ==
  IF k > Len(files) \/ ~ st.ok THEN st
  ELSE IF files[k].stem_id = NULL
  THEN insert_images_by_scanning(st, files, split, k + 1)
  ELSE insert_images_by_scanning(
         CocoAddImage(st, split, files[k].stem_id,
                      CocoRelPath(split, files[k].name),
                      files[k].width, files[k].height),
         files, split, k + 1)

\* the image records of a list, tagged with their split
Ingested(recs, split) ==
  {[id |-> recs[k].id, file_name |-> recs[k].file_name, split |-> split] :
     k \in 1..Len(recs)}

Scanned(files, split) ==
  {[id |-> files[k].stem_id, file_name |-> files[k].name, split |-> split] :
     k \in {j \in 1..Len(files) : files[j].stem_id # NULL}}

\* the tables and the position after the image loop of a split returned st
CocoImagesResult(st, split) ==
  IF st.ok
  THEN /\ Image' = st.Image
       /\ splits' = st.splits
       /\ pc' = AfterImages(split)
       /\ next_id' = IF split = "test" THEN NextAnnotationId(Annotation)
                      ELSE next_id
       /\ UNCHANGED <<err, committed, LabelClass, Annotator, DatasetVersion,
                      Annotation>>
  ELSE Raise("IntegrityError", "splits") /\ UNCHANGED next_id

\* if <split>_data: insert_images_from_ann(cur, <split>_data["images"], split)
CocoImagesFromAnn(split) ==
  /\ conv = "coco" /\ pc = ImgPc(split)
  /\ ann_paths[split]
  /\ \E images \in ImageLists :
       /\ srcImages' = srcImages \cup Ingested(images, split)
       /\ CocoImagesResult(
            insert_images_from_ann([ok |-> TRUE, Image |-> Image, splits |-> splits],
                                   images, split, 1), split)
  /\ UNCHANGED <<conv, dbTouched, ann_paths, split_dirs, missing, srcCats, srcAnns,
                 oiVars, srcXml>>

\* elif split_dirs[split]: insert_images_by_scanning(cur, split_dirs[split], ...)
CocoImagesByScanning(split) ==
  /\ conv = "coco" /\ pc = ImgPc(split)
  /\ ~ ann_paths[split] /\ split_dirs[split]
  /\ \E files \in DirLists :
       /\ srcImages' = srcImages \cup Scanned(files, split)
       /\ CocoImagesResult(
            insert_images_by_scanning([ok |-> TRUE, Image |-> Image, splits |-> splits],
                                      files, split, 1), split)
  /\ UNCHANGED <<conv, dbTouched, ann_paths, split_dirs, missing, srcCats, srcAnns,
                 oiVars, srcXml>>

\* neither the annotation file nor the directory of the split was found
CocoNoImages(split) ==
  /\ conv = "coco" /\ pc = ImgPc(split)
  /\ ~ ann_paths[split] /\ ~ split_dirs[split]
  /\ pc' = AfterImages(split)
  /\ next_id' = IF split = "test" THEN NextAnnotationId(Annotation) ELSE next_id
  /\ UNCHANGED <<conv, err, dbTouched, dbVars, committed, ann_paths,
                 split_dirs, histVars, oiVars, srcXml>>

\* one iteration of insert_annotations(cur, data["annotations"])
CocoInsertAnnotation(split) ==
  /\ conv = "coco" /\ pc = AnnPc(split)
  /\ ann_paths[split]
  /\ Cardinality(Annotation) < AnnBound
  /\ \E image_id \in ImageIds, category_id \in CatIds, b \in Boxes :
       LET row == CocoAnnRow(next_id, image_id, category_id, b) IN
       /\ srcAnns' = Append(srcAnns, [split |-> split, image_id |-> image_id,
                                      category_id |-> category_id, bbox |-> b])
       /\ IF \/ \E r \in Annotation : r.annotation_id = row.annotation_id
             \/ FkAnnotationBroken(Image, LabelClass, Annotator, DatasetVersion, row)
          THEN Raise("IntegrityError", "Annotation") /\ UNCHANGED next_id
          ELSE /\ Annotation' = Annotation \cup {row}
               /\ next_id' = next_id + 1
               /\ UNCHANGED <<pc, err, committed, Image, LabelClass, Annotator,
                              DatasetVersion, splits>>
  /\ UNCHANGED <<conv, dbTouched, ann_paths, split_dirs, missing, srcImages,
                 srcCats, oiVars, srcXml>>

CocoAnnotationsDone(split) ==
  /\ conv = "coco" /\ pc = AnnPc(split)
  /\ pc' = CASE split = "train" -> "ann_val"
             [] split = "val"   -> "commit"
  /\ next_id' = IF split = "train" THEN NextAnnotationId(Annotation) ELSE next_id
  /\ UNCHANGED <<conv, err, dbTouched, dbVars, committed, ann_paths,
                 split_dirs, histVars, oiVars, srcXml>>

\* conn.commit()
CocoCommit ==
  /\ conv = "coco" /\ pc = "commit"
  /\ committed' = Tables
  /\ pc' = "done"
  /\ UNCHANGED <<conv, err, dbTouched, dbVars, cocoVars, histVars, oiVars, srcXml>>

CocoNext ==
  \/ CocoBuild
  \/ CocoCategories
  \/ \E s \in {"train", "val", "test"} : CocoImagesFromAnn(s)
  \/ \E s \in {"train", "val", "test"} : CocoImagesByScanning(s)
  \/ \E s \in {"train", "val", "test"} : CocoNoImages(s)
  \/ \E s \in {"train", "val"} : CocoInsertAnnotation(s)
  \/ \E s \in {"train", "val"} : CocoAnnotationsDone(s)
  \/ CocoCommit

\* ============================================================ Open Images
\* dict.get(key, default) on a function whose domain holds the keys
Get(f, k, default) == IF k \in DOMAIN f THEN f[k] ELSE default

\* row.get("Thumbnail300KURL") or row.get("OriginalURL")
FileUrl(thumb, orig) == IF thumb # "" THEN thumb ELSE orig

\* chosen[img_id] = (split, file_url) ... if len(chosen) >= limit: break
ChoiceFull(chosen, limit) == Len(chosen) >= limit

ChosenIds(chosen) == {chosen[i].oid : i \in 1..Len(chosen)}

\* main(), up to the call of choose_images: the existence check of the
\* seven CSV files and read_class_names.
OIMain ==
  /\ conv = "oi" /\ pc = "start"
  /\ \E csv_missing \in BOOLEAN :
       /\ missing' = csv_missing
       /\ IF csv_missing
          THEN /\ Raise("FileNotFoundError", "input")
               /\ UNCHANGED <<TARGET_IMAGE_COUNT, mid_to_name>>
          ELSE /\ TARGET_IMAGE_COUNT' \in 0..MaxTarget
               /\ mid_to_name' \in MidMaps
               /\ pc' = "choose"
               /\ UNCHANGED <<err, dbVars, committed>>
  /\ UNCHANGED <<conv, dbTouched, cocoVars, srcImages, srcCats, srcAnns, rdSplit, picked,
                 imageid_to_int, label_to_int, next_label_int, ann_pk,
                 no_url_rows, srcXml>>

\* one iteration of the loop of choose_images over iter_image_info
OIChooseRow ==
  /\ conv = "oi" /\ pc = "choose"
  /\ \E si \in rdSplit..Len(OISplits), img_id \in OIDs,
        thumb \in Thumbs, orig \in Originals :
       LET file_url == FileUrl(thumb, orig)
           chosen == Append(picked, [oid |-> img_id, split |-> OISplits[si],
                                     url |-> file_url])
       IN /\ rdSplit' = si
          /\ no_url_rows' = (no_url_rows \/ file_url = "")
          /\ IF img_id \in ChosenIds(picked) \/ file_url = ""
             THEN UNCHANGED <<picked, pc>>
             ELSE /\ picked' = chosen
                  /\ pc' = IF ChoiceFull(chosen, TARGET_IMAGE_COUNT)
                           THEN "build" ELSE "choose"
  /\ UNCHANGED <<conv, err, dbTouched, dbVars, committed, cocoVars, histVars,
                 TARGET_IMAGE_COUNT, mid_to_name, imageid_to_int,
                 label_to_int, next_label_int, ann_pk, srcXml>>

\* the image-info files are exhausted before the cap is reached
OIChooseEnd ==
  /\ conv = "oi" /\ pc = "choose"
  /\ pc' = "build"
  /\ rdSplit' = Len(OISplits)
  /\ UNCHANGED <<conv, err, dbTouched, dbVars, committed, cocoVars, histVars,
                 TARGET_IMAGE_COUNT, mid_to_name, picked, imageid_to_int,
                 label_to_int, next_label_int, ann_pk, no_url_rows, srcXml>>

\* the loop "for oid, (split, url) in picked.items()" from its i-th item on:
\* INSERT INTO Image, INSERT OR IGNORE INTO splits, next_img_int += 1
RECURSIVE OIInsertImages(_, _, _)
OIInsertImages(i, img, spl) ==
  IF i > Len(picked)
  THEN [ok |-> TRUE, Image |-> img, splits |-> spl]
  ELSE LET irow == [image_id |-> i, file_path |-> picked[i].url,
                    width |-> NULL, height |-> NULL]
           srow == [image_id |-> i, split |-> picked[i].split]
       IN IF \/ ImageConflict("oi", img, irow)
             \/ SplitFkBroken("oi", img \cup {irow}, spl, srow)
          THEN [ok |-> FALSE, Image |-> img, splits |-> spl]
          ELSE OIInsertImages(i + 1, img \cup {irow}, insert_split("oi", spl, srow))

\* main() from "if OUT_DB.exists()" to the end of the Image/splits loop
OIBuild ==
  /\ conv = "oi" /\ pc = "build"
  /\ dbTouched' = TRUE
  /\ committed' = EmptyDb
  /\ LET r == OIInsertImages(1, {}, {}) IN
       IF r.ok
       THEN /\ SetTables([EmptyDb EXCEPT !.DatasetVersion = {1}, !.Annotator = {1},
                                         !.Image = r.Image, !.splits = r.splits])
            /\ pc' = "boxes"
            /\ err' = err
       ELSE /\ SetTables(EmptyDb)
            /\ pc' = "aborted"
            /\ err' = [type |-> "IntegrityError", at |-> "Image"]
  /\ imageid_to_int' = [o \in ChosenIds(picked) |->
                          CHOOSE i \in 1..Len(picked) : picked[i].oid = o]
  /\ label_to_int' = <<>>
  /\ next_label_int' = 1
  /\ ann_pk' = 1
  /\ UNCHANGED <<conv, cocoVars, histVars, TARGET_IMAGE_COUNT, mid_to_name,
                 rdSplit, picked, no_url_rows, srcXml>>

\* bbox_str = f"{xmin:.6f},{ymin:.6f},{xmax:.6f},{ymax:.6f}"
OIBboxStr(b) == <<b[1], b[3], b[2], b[4]>>

OIAnnRow(id, img_int, label_int, b) ==
  [annotation_id |-> id, image_id |-> img_int, version_id |-> 1,
   annotator_id |-> 1, label_class_id |-> label_int,
   xmin |-> NULL, ymin |-> NULL, xmax |-> NULL, ymax |-> NULL,
   bbox |-> OIBboxStr(b)]

\* one iteration of the loop over iter_boxes(BOX_FILES); numeric tells
\* whether float() accepts the four coordinate columns of the row
OIBoxRow ==
  /\ conv = "oi" /\ pc = "boxes"
  /\ ann_pk <= MaxBoxes
  /\ \E oid \in OIDs, mid \in MIDs, numeric \in BOOLEAN :
       LET img_int == Get(imageid_to_int, oid, 0)
           fresh == mid \notin DOMAIN label_to_int
           lrow == [label_class_id |-> next_label_int,
                    name |-> Get(mid_to_name, mid, mid)]
           lab1 == IF fresh THEN LabelClass \cup {lrow} ELSE LabelClass
           l2i1 == IF fresh THEN label_to_int @@ (mid :> next_label_int)
                            ELSE label_to_int
           arow == OIAnnRow(ann_pk, img_int, l2i1[mid], OIBox)
       IN IF img_int = 0
          THEN UNCHANGED vars
          ELSE /\ IF fresh /\ LabelConflict("oi", LabelClass, lrow)
                  THEN Raise("IntegrityError", "LabelClass") /\ UNCHANGED oiVars
                  ELSE IF ~ numeric
                  THEN Raise("ValueError", "float") /\ UNCHANGED oiVars
                  ELSE IF \/ \E r \in Annotation : r.annotation_id = ann_pk
                          \/ FkAnnotationBroken(Image, lab1, Annotator,
                                                DatasetVersion, arow)
                  THEN Raise("IntegrityError", "Annotation") /\ UNCHANGED oiVars
                  ELSE /\ LabelClass' = lab1
                       /\ Annotation' = Annotation \cup {arow}
                       /\ label_to_int' = l2i1
                       /\ next_label_int' = IF fresh THEN next_label_int + 1
                                            ELSE next_label_int
                       /\ ann_pk' = ann_pk + 1
                       /\ UNCHANGED <<pc, err, committed, Image, Annotator,
                                      DatasetVersion, splits,
                                      TARGET_IMAGE_COUNT, mid_to_name, rdSplit,
                                      picked, imageid_to_int, no_url_rows>>
               /\ UNCHANGED <<conv, dbTouched, cocoVars, histVars, srcXml>>

\* the box files are exhausted: the "with conn:" block ends and commits
OIBoxesDone ==
  /\ conv = "oi" /\ pc = "boxes"
  /\ committed' = Tables
  /\ pc' = "done"
  /\ UNCHANGED <<conv, err, dbTouched, dbVars, cocoVars, histVars, oiVars, srcXml>>

OINext ==
  \/ OIMain
  \/ OIChooseRow
  \/ OIChooseEnd
  \/ OIBuild
  \/ OIBoxRow
  \/ OIBoxesDone

\* ==================================================================== VOC
VOC_CLASSES ==
  << "aeroplane", "bicycle", "bird", "boat", "bottle", "bus", "car", "cat",
     "chair", "cow", "diningtable", "dog", "horse", "motorbike", "person",
     "pottedplant", "sheep", "sofa", "train", "tvmonitor" >>

\* the seed rows numbered from 0
VocSeedLabels_FromZero ==
  {[label_class_id |-> i - 1, name |-> VOC_CLASSES[i]] : i \in 1..Len(VOC_CLASSES)}

\* for i, cls in enumerate(VOC_CLASSES, start=1): INSERT INTO LabelClass
VocSeedLabels ==
  {[label_class_id |-> i, name |-> VOC_CLASSES[i]] : i \in 1..Len(VOC_CLASSES)}

Jpg(stem) == stem \o ".jpg"

\* what parse_annotation returns for the i-th XML file besides its objects,
\* and the split files whose ids hold the stem of its image: <filename> is
\* its own image, is missing, or is the image of the first XML file; <size>
\* is present or missing
XmlHeads(i) ==
  { [filename |-> Jpg(XmlStems[i]), size |-> VocSize, listed |-> {"train"}],
    [filename |-> "",               size |-> VocSize, listed |-> {}],
    [filename |-> Jpg(XmlStems[i]), size |-> NoSize,
     listed |-> {"train", "trainval"}],
    [filename |-> Jpg(XmlStems[1]), size |-> VocSize,
     listed |-> {"val", "trainval", "test"}] }

Obj(name, box) == [name |-> name, box |-> box]

\* the <object> elements: name and bndbox (xmin,ymin,xmax,ymax texts * Scale)
VocObjs ==
  { Obj("person", <<3, 4, 7, 8>>), Obj("dog", <<3, 4, 7, 8>>),
    Obj("zebra", <<3, 4, 7, 8>>), Obj("zebra", NoBox), Obj("yak", <<3, 4, 7, 8>>) }

\* if not filename: filename = f"{xmlf.stem}.jpg"
VocFilename(fn, xml_stem) == IF fn = "" THEN Jpg(xml_stem) ELSE fn

\* str(img_dir / filename), img_dir being the JPEGImages directory of the root
VocFilePath(filename) == "JPEGImages/" \o filename

SeqsUpTo(S, n) == UNION {[1..k -> S] : k \in 0..n}

\* rowid of an INSERT that gives no INTEGER PRIMARY KEY: max(rowid) + 1
AutoId(ids) == MaxOf(ids) + 1

\* a corner that is 0 without <bndbox>
VocCoord_Zero(box, k) == IF box = NoBox THEN 0 ELSE Trunc(box[k])

\* int(float(b.findtext(...))) for the four corners, or None without <bndbox>
VocCoord(box, k) == IF box = NoBox THEN NULL ELSE Trunc(box[k])

\* bbox_str = f"{xmin},{ymin},{xmax},{ymax}", or None
VocBboxStr(box) ==
  IF box = NoBox THEN NOTEXT
  ELSE <<Trunc(box[1]), Trunc(box[2]), Trunc(box[3]), Trunc(box[4])>>

\* a lookup that never finds the row
VocLookup_Blind(lab, name) == 0

\* SELECT label_class_id FROM LabelClass WHERE name=?  (0 stands for no row)
VocLookup(lab, name) ==
  IF \E r \in lab : r.name = name
  THEN (CHOOSE r \in lab : r.name = name).label_class_id
  ELSE 0

\* the label_id an object named `name` is linked to: the row found by
\* name, else the rowid of the row inserted for it
VocLabelId(lab, name) ==
  IF VocLookup(lab, name) # 0
  THEN VocLookup(lab, name)
  ELSE AutoId({r.label_class_id : r \in lab})

\* "for (name, xmin, ymin, xmax, ymax) in objs" from the k-th object on;
\* ok turns FALSE when an INSERT violates a constraint
RECURSIVE VocInsertObjects(_, _, _, _, _)
VocInsertObjects(objs, k, image_id, lab, ann) ==
  IF k > Len(objs)
  THEN [ok |-> TRUE, at |-> "none", LabelClass |-> lab, Annotation |-> ann]
  ELSE LET name == objs[k].name
           box == objs[k].box
           found == VocLookup(lab, name) # 0
           label_id == VocLabelId(lab, name)
           lrow == [label_class_id |-> label_id, name |-> name]
           lab1 == IF found THEN lab ELSE lab \cup {lrow}
           arow == [annotation_id |-> AutoId({r.annotation_id : r \in ann}),
                    image_id |-> image_id, version_id |-> 1,
                    annotator_id |-> 1, label_class_id |-> label_id,
                    xmin |-> VocCoord(box, 1), ymin |-> VocCoord(box, 2),
                    xmax |-> VocCoord(box, 3), ymax |-> VocCoord(box, 4),
                    bbox |-> VocBboxStr(box)]
       IN IF ~ found /\ LabelConflict("voc", lab, lrow)
          THEN [ok |-> FALSE, at |-> "LabelClass", LabelClass |-> lab,
                Annotation |-> ann]
          ELSE IF FkAnnotationBroken(Image \cup {[image_id |-> image_id]}, lab1,
                                     Annotator, DatasetVersion, arow)
          THEN [ok |-> FALSE, at |-> "Annotation", LabelClass |-> lab,
                Annotation |-> ann]
          ELSE VocInsertObjects(objs, k + 1, image_id, lab1, ann \cup {arow})

\* build_db() up to the XML loop: the directory check, unlink, connect,
\* executescript, the seed rows, read_split_ids
VocBuild ==
  /\ conv = "voc" /\ pc = "start"
  /\ \E ann_dir_exists \in BOOLEAN, img_dir_exists \in BOOLEAN :
       /\ missing' = (~ ann_dir_exists \/ ~ img_dir_exists)
       /\ IF ~ ann_dir_exists \/ ~ img_dir_exists
          THEN Raise("FileNotFoundError", "input") /\ UNCHANGED dbTouched
          ELSE /\ dbTouched' = TRUE
               /\ committed' = EmptyDb
               /\ SetTables([EmptyDb EXCEPT !.LabelClass = VocSeedLabels,
                                            !.DatasetVersion = {1},
                                            !.Annotator = {1}])
               /\ pc' = "files"
               /\ err' = err
  /\ UNCHANGED <<conv, cocoVars, srcImages, srcCats, srcAnns, oiVars, srcXml>>

\* one iteration of "for xmlf in xml_files"
VocProcessXml ==
  /\ conv = "voc" /\ pc = "files"
  /\ Len(srcXml) < MaxXml
  /\ \E head \in XmlHeads(Len(srcXml) + 1),
        objs \in SeqsUpTo(VocObjs, MaxObjs - Cardinality(Annotation)) :
       LET xml_stem == XmlStems[Len(srcXml) + 1]
           fn == head.filename
           size == head.size
           listed == head.listed
           filename == VocFilename(fn, xml_stem)
           image_id == AutoId({r.image_id : r \in Image})
           irow == [image_id |-> image_id,
                    file_path |-> VocFilePath(filename),
                    width |-> size[1], height |-> size[2]]
           img1 == Image \cup {irow}
           srows == {[image_id |-> image_id, split |-> sname] : sname \in listed}
           r == VocInsertObjects(objs, 1, image_id, LabelClass, Annotation)
       IN /\ srcXml' = Append(srcXml, [stem |-> xml_stem, filename |-> fn,
                                       listed |-> listed,
                                       sized |-> (size # NoSize),
                                       names |-> [k \in 1..Len(objs) |-> objs[k].name],
                                       boxed |-> [k \in 1..Len(objs) |->
                                                    objs[k].box # NoBox]])
          /\ IF ImageConflict("voc", Image, irow)
             THEN Raise("IntegrityError", "Image")
             ELSE IF \E srow \in srows : SplitFkBroken("voc", img1, splits, srow)
             THEN Raise("IntegrityError", "splits")
             ELSE IF ~ r.ok
             THEN Raise("IntegrityError", r.at)
             ELSE /\ Image' = img1
                  /\ splits' = splits \cup
                                 {srow \in srows : ~ SplitIgnored("voc", splits, srow)}
                  /\ LabelClass' = r.LabelClass
                  /\ Annotation' = r.Annotation
                  /\ UNCHANGED <<pc, err, committed, Annotator, DatasetVersion>>
  /\ UNCHANGED <<conv, dbTouched, cocoVars, histVars, oiVars>>

\* the XML files are exhausted: the "with conn:" block ends and commits
VocCommit ==
  /\ conv = "voc" /\ pc = "files"
  /\ committed' = Tables
  /\ pc' = "done"
  /\ UNCHANGED <<conv, err, dbTouched, dbVars, cocoVars, histVars, oiVars, srcXml>>

VocNext ==
  \/ VocBuild
  \/ VocProcessXml
  \/ VocCommit

Next == CocoNext \/ OINext \/ VocNext

Spec == Init /\ [][Next]_vars

\* ================================================================== claims
\* C1: in every database state a run commits, each Annotation row's
\* image_id, label_class_id, annotator_id and version_id is the primary key
\* of an existing Image, LabelClass, Annotator and DatasetVersion row.
C1_ReferentialCompleteness ==
  \A a \in committed.Annotation :
    /\ \E i \in committed.Image : i.image_id = a.image_id
    /\ \E l \in committed.LabelClass : l.label_class_id = a.label_class_id
    /\ a.annotator_id \in committed.Annotator
    /\ a.version_id \in committed.DatasetVersion

\* a COCO run committed several annotations of one image
C1_Witness ==
  /\ conv = "coco" /\ pc = "done"
  /\ Cardinality(committed.Annotation) >= 2
  /\ Cardinality(committed.Image) = 1

\* C2 (as stated): no two LabelClass rows share a name and no two Image
\* rows share a file_path, in the tables of a run and in what it commits.
C2_NaturalKeysUnique ==
  \A d \in {Tables, committed} :
    /\ \A l1 \in d.LabelClass, l2 \in d.LabelClass :
         l1.name = l2.name => l1 = l2
    /\ \A i1 \in d.Image, i2 \in d.Image :
         i1.file_path = i2.file_path => i1 = i2

\* the run is over: it committed, or it died while ingesting image records
ImagesIngested ==
  pc = "done" \/ (pc = "aborted" /\ err.at \in {"Image", "splits"})

\* the distinct natural keys of the image records a run has ingested
NaturalKeys ==
  CASE conv = "coco" -> {r.id : r \in srcImages}
    [] conv = "oi"   -> ChosenIds(picked)
    [] conv = "voc"  -> {VocFilePath(VocFilename(srcXml[i].filename, srcXml[i].stem)) :
                           i \in 1..Len(srcXml)}

\* the Image rows of the database file that carry natural key k
RowsOfKey(k) ==
  CASE conv = "coco" -> {i \in committed.Image : i.image_id = k}
    [] conv = "oi"   -> {i \in committed.Image :
                           k \in DOMAIN imageid_to_int /\ i.image_id = imageid_to_int[k]}
    [] conv = "voc"  -> {i \in committed.Image : i.file_path = k}

\* C3 (as stated): once a run has ingested its image records, the Image
\* table holds exactly one row per distinct natural key (COCO: image id,
\* Open Images: ImageID, VOC: file path) and no more rows than distinct keys.
C3_OneRowPerNaturalKey ==
  ImagesIngested =>
    /\ \A k \in NaturalKeys : Cardinality(RowsOfKey(k)) = 1
    /\ Cardinality(committed.Image) <= Cardinality(NaturalKeys)

\* C4 (as stated): an Open Images run never selects or stores more images
\* than TARGET_IMAGE_COUNT, and every Annotation row's image_id is the
\* integer assigned to a selected image.
C4_CapRespected ==
  conv = "oi" =>
    /\ Len(picked) <= TARGET_IMAGE_COUNT
    /\ Cardinality(Image) <= TARGET_IMAGE_COUNT
    /\ \A a \in Annotation :
         \E o \in ChosenIds(picked) :
           o \in DOMAIN imageid_to_int /\ imageid_to_int[o] = a.image_id

\* t is n / Scale with its fractional part dropped (rounded toward zero)
IsTruncOf(t, n) ==
  /\ n >= 0 => (t >= 0 /\ t * Scale <= n /\ n < (t + 1) * Scale)
  /\ n < 0  => (t <= 0 /\ (t - 1) * Scale < n /\ n <= t * Scale)

IsWhole(n) == n % Scale = 0

\* C5 (as stated): every stored COCO annotation satisfies xmax = xmin + w
\* and ymax = ymin + h for its box [x,y,w,h].
C5_RoundTrip ==
  conv = "coco" =>
    \A a \in Annotation :
      /\ a.xmax * Scale = a.xmin * Scale + a.bbox[3]
      /\ a.ymax * Scale = a.ymin * Scale + a.bbox[4]

\* C5 (amended): every stored COCO annotation has xmin, ymin, xmax, ymax
\* equal to x, y, x+w, y+h each rounded toward zero; xmax = xmin + w holds
\* when x and w are whole numbers, and ymax = ymin + h when y and h are.
C5_TruncatedCorners ==
  conv = "coco" =>
    \A a \in Annotation :
      /\ IsTruncOf(a.xmin, a.bbox[1])
      /\ IsTruncOf(a.ymin, a.bbox[2])
      /\ IsTruncOf(a.xmax, a.bbox[1] + a.bbox[3])
      /\ IsTruncOf(a.ymax, a.bbox[2] + a.bbox[4])
      /\ (IsWhole(a.bbox[1]) /\ IsWhole(a.bbox[3])) =>
           a.xmax * Scale = a.xmin * Scale + a.bbox[3]
      /\ (IsWhole(a.bbox[2]) /\ IsWhole(a.bbox[4])) =>
           a.ymax * Scale = a.ymin * Scale + a.bbox[4]

\* a COCO run committed an annotation whose box has fractional x and w and
\* whose stored xmax is not xmin + w
C5_Witness ==
  /\ conv = "coco" /\ pc = "done"
  /\ \E a \in committed.Annotation :
       /\ ~ IsWhole(a.bbox[1]) /\ ~ IsWhole(a.bbox[3])
       /\ a.xmax * Scale # a.xmin * Scale + a.bbox[3]

\* the <object> names of the XML files from the i-th file on, in input order
RECURSIVE ObjectNamesFrom(_)
ObjectNamesFrom(i) ==
  IF i > Len(srcXml) THEN <<>> ELSE srcXml[i].names \o ObjectNamesFrom(i + 1)

IsCanonical(name) == \E i \in 1..Len(VOC_CLASSES) : VOC_CLASSES[i] = name

\* C6: in a VOC run no label lookup or insert fails, the k-th annotation is
\* linked to exactly one LabelClass row and that row carries the name of the
\* k-th object read; the row of a canonical name has the name's position in
\* VOC_CLASSES as id, the row of any other name has an id above 20; no two
\* LabelClass rows share an id or a name (so a repeated name reuses its id).
C6_VocLabels ==
  conv = "voc" =>
    /\ err.at # "LabelClass"
    /\ \A l1 \in LabelClass, l2 \in LabelClass :
         (l1.label_class_id = l2.label_class_id \/ l1.name = l2.name) => l1 = l2
    /\ pc \in {"files", "done"} =>
         /\ {a.annotation_id : a \in Annotation} = 1..Len(ObjectNamesFrom(1))
         /\ \A a \in Annotation :
              \E l \in LabelClass :
                /\ l.label_class_id = a.label_class_id
                /\ l.name = ObjectNamesFrom(1)[a.annotation_id]
                /\ IF IsCanonical(l.name)
                   THEN l.label_class_id \in 1..Len(VOC_CLASSES)
                        /\ VOC_CLASSES[l.label_class_id] = l.name
                   ELSE l.label_class_id > Len(VOC_CLASSES)

\* a VOC run committed two annotations of one non-canonical class, linked
\* to the same LabelClass row
C6_Witness ==
  /\ conv = "voc" /\ pc = "done"
  /\ \E a1 \in committed.Annotation, a2 \in committed.Annotation :
       /\ a1.annotation_id # a2.annotation_id
       /\ a1.label_class_id = a2.label_class_id
       /\ a1.label_class_id > Len(VOC_CLASSES)

\* C7 (as stated): every splits row, in the tables of a run and in what it
\* commits, carries a split label of {train, val, trainval, test}.  (A table
\* is a set of rows, so no (image, split) pair occurs twice.)
C7_SplitLabels ==
  \A d \in {Tables, committed} : \A r \in d.splits : r.split \in SplitEnum

\* the input of a COCO run is the scenario's: a root with
\* instances_val2017.json only, holding 2 categories (distinct ids and
\* names), 2 images (distinct ids and file names) and 3 annotations that
\* reference those images and categories
C8_Scenario ==
  /\ conv = "coco"
  /\ ValOnly(ann_paths, split_dirs)
  /\ Len(srcCats) = 2
  /\ srcCats[1].id # srcCats[2].id /\ srcCats[1].name # srcCats[2].name
  /\ Cardinality(srcImages) = 2
  /\ \A r1 \in srcImages, r2 \in srcImages :
       (r1.id = r2.id \/ r1.file_name = r2.file_name) => r1 = r2
  /\ Len(srcAnns) = 3
  /\ \A k \in 1..Len(srcAnns) :
       /\ \E r \in srcImages : r.id = srcAnns[k].image_id
       /\ \E j \in 1..Len(srcCats) : srcCats[j].id = srcAnns[k].category_id

\* C8: a COCO run on the scenario's input does not fail, and what it commits
\* is 2 Image rows, 2 LabelClass rows, 3 Annotation rows that all carry
\* version_id 1 and annotator_id 1, and 2 splits rows, both tagged 'val'.
C8_CocoEndToEnd ==
  (C8_Scenario /\ pc \in {"done", "aborted"}) =>
    /\ pc = "done"
    /\ Cardinality(committed.Image) = 2
    /\ Cardinality(committed.LabelClass) = 2
    /\ Cardinality(committed.Annotation) = 3
    /\ \A a \in committed.Annotation : a.version_id = 1 /\ a.annotator_id = 1
    /\ Cardinality(committed.splits) = 2
    /\ \A r \in committed.splits : r.split = "val"

\* a COCO run on the scenario's input has committed
C8_Witness == C8_Scenario /\ pc = "done"

\* the input of a VOC run is the scenario's: one XML file with the objects
\* 'person' and 'dog', its image listed by train.txt only
C9_Scenario ==
  /\ conv = "voc"
  /\ Len(srcXml) = 1
  /\ srcXml[1].names = <<"person", "dog">>
  /\ srcXml[1].listed = {"train"}

\* C9: a VOC run on the scenario's input does not fail, and what it commits
\* is 1 Image row, one splits row for it tagged 'train', and 2 Annotation
\* rows: the first with label_class_id 15, the second with label_class_id 12.
C9_VocEndToEnd ==
  (C9_Scenario /\ pc \in {"done", "aborted"}) =>
    /\ pc = "done"
    /\ Cardinality(committed.Image) = 1
    /\ committed.splits =
         {[image_id |-> i.image_id, split |-> "train"] : i \in committed.Image}
    /\ {[id |-> a.annotation_id, label |-> a.label_class_id] :
          a \in committed.Annotation}
         = {[id |-> 1, label |-> 15], [id |-> 2, label |-> 12]}
    /\ Cardinality(committed.Annotation) = 2
    /\ \A a \in committed.Annotation :
         \E i \in committed.Image : i.image_id = a.image_id

\* a VOC run on the scenario's input has committed
C9_Witness == C9_Scenario /\ pc = "done"

\* C10 (as stated): a run whose inputs are absent never completes, it ends
\* with a missing-input error, and an Open Images run whose CSV files are
\* absent never touches the output database.
C10_MissingInputFails ==
  missing =>
    /\ pc # "done"
    /\ pc = "aborted" => err.type = "FileNotFoundError"
    /\ conv = "oi" => ~ dbTouched

\* for each <object> of the XML files from the i-th file on, in input
\* order, whether it has a <bndbox>
RECURSIVE ObjectBoxedFrom(_)
ObjectBoxedFrom(i) ==
  IF i > Len(srcXml) THEN <<>> ELSE srcXml[i].boxed \o ObjectBoxedFrom(i + 1)

\* the run has read a record that lacks a field: an image-info row without
\* URL, a box row whose coordinate is not a number, an XML file without
\* <filename> or <size>, an <object> without <bndbox>
MalformedRead ==
  \/ conv = "oi" /\ (no_url_rows \/ err.at = "float")
  \/ conv = "voc" /\ \E i \in 1..Len(srcXml) :
                        \/ srcXml[i].filename = ""
                        \/ ~ srcXml[i].sized
                        \/ \E k \in 1..Len(srcXml[i].boxed) : ~ srcXml[i].boxed[k]

XmlPath(i) == VocFilePath(VocFilename(srcXml[i].filename, srcXml[i].stem))

C12_NoPartialCommit ==
  conv \in {"coco", "oi"} =>
    /\ pc # "done" => committed = EmptyDb
    /\ (pc = "aborted" /\ dbTouched) => Tables = EmptyDb

\* a COCO run died at an Annotation insert after it had inserted seed rows,
\* Image rows and an earlier Annotation row, and the file holds no row
C12_Witness ==
  /\ conv = "coco" /\ pc = "aborted" /\ err.at = "Annotation"
  /\ Len(srcAnns) >= 2 /\ srcImages # {}
  /\ committed = EmptyDb

\* the category ids of the LabelClass rows that the categories list gives
StoredCatIds == {l.label_class_id : l \in insert_categories({}, srcCats, 1)}

\* C13: in a COCO run the annotation ids are pairwise distinct and are
\* exactly 1..N in input order, train records before val records: the row
\* with id k carries the image, category and box of the k-th record read;
\* and an Annotation insert fails only for a record whose image or category
\* is not stored, never because its id is taken.
C13_SequentialIds ==
  conv = "coco" =>
    /\ pc # "aborted" =>
         /\ Cardinality(Annotation) = Len(srcAnns)
         /\ {a.annotation_id : a \in Annotation} = 1..Len(srcAnns)
         /\ \A a \in Annotation :
              LET rec == srcAnns[a.annotation_id] IN
              /\ a.image_id = rec.image_id
              /\ a.label_class_id = rec.category_id
              /\ a.bbox = rec.bbox
         /\ \A i \in 1..Len(srcAnns), j \in 1..Len(srcAnns) :
              (srcAnns[i].split = "val" /\ srcAnns[j].split = "train") => j < i
    /\ (pc = "aborted" /\ err.at = "Annotation") =>
         LET last == srcAnns[Len(srcAnns)] IN
         \/ last.image_id \notin {r.id : r \in srcImages}
         \/ last.category_id \notin StoredCatIds

\* a COCO run committed a train annotation as id 1 and a val annotation as
\* id 2
C13_Witness ==
  /\ conv = "coco" /\ pc = "done"
  /\ Len(srcAnns) = 2
  /\ srcAnns[1].split = "train" /\ srcAnns[2].split = "val"
  /\ {a.annotation_id : a \in committed.Annotation} = {1, 2}
====
